---- MODULE Spec2Model ----
(***************************************************************************)
(* Model of src/claude3.45.py: the CLIAssistant turn loop, its directive   *)
(* extractor, its command executor and its JSON session persistence.       *)
(*                                                                         *)
(* Text.  A Python str is modelled as a sequence of tokens.  The tokens    *)
(* "[cmd]" and "[/cmd]" are the two markers; " " and "\n" are whitespace;  *)
(* every other token is a run of non-whitespace characters that contains   *)
(* no square bracket.  No marker can therefore begin inside a token or     *)
(* straddle two tokens, so str.index on the characters finds a marker      *)
(* exactly where the first marker token is, and str.strip on the           *)
(* characters removes exactly the leading and trailing whitespace tokens.  *)
(* Positions are 1-based token positions; 0 stands for ValueError.         *)
(* The fixed message texts of the program (result messages, file-name      *)
(* parts) are single tokens although they contain blanks: they never lie   *)
(* at the edge of a slice that is stripped.                                *)
(*                                                                         *)
(* Optional[str] is modelled as a sequence of length 0 (None) or 1.        *)
(* German message texts are written without umlauts.                       *)
(***************************************************************************)
EXTENDS Integers, Sequences, FiniteSets, TLC

VARIABLES
    pc,          \* position of run(): AwaitingInput, AwaitingReply, Executing,
                 \* Reporting (a handler of lines 206-210 prints), Exited
    user_input,  \* the line last returned by Prompt.ask
    history,     \* self.conversation_history
    sent,        \* the messages argument of the turn's client.messages.create call
    response,    \* the text get_response returned in the turn
    answer,      \* what the collaborator did with the turn's request (None before)
    command,     \* what extract_command returned in the turn (Optional[str])
    output,      \* what execute_command returned in the turn (Optional[str])
    ran,         \* how the turn's subprocess.run ended (None while there was none)
    procs,       \* operating-system processes alive that a directive started
    fs,          \* the files of the working directory, by name
    saved,       \* per file name: the history a successful save last wrote there
    last,        \* what the last step of the loop did and reported
    base,        \* length of the history when the turn started
    ncalls,      \* number of requests made to the model collaborator
    nexec,       \* number of calls of execute_command in the turn
    nlaunch      \* number of subprocess launches attempted in the turn

vars == <<pc, user_input, history, sent, response, answer, command, output, ran, procs, fs,
          saved, last, base, ncalls, nexec, nlaunch>>

-----------------------------------------------------------------------------
(* Bounds *)

\* longest text given to extract_command in SpecExtract
MaxLen == 5
\* longest directive given to execute_command in SpecExec
MaxCmdLen == 2
\* number of conversational turns of one session under Spec
MaxTurns == 2
\* number of conversational turns of one session under SpecPersist
MaxPersistTurns == 1
\* number of distinct clock readings (seconds) at which a save can happen
MaxClock == 1

-----------------------------------------------------------------------------
(* Text *)

StartMarker == "[cmd]"
EndMarker == "[/cmd]"
Whitespace == {" ", "\n"}

None == << >>
Some(v) == << v >>

TextsUpTo(tokens, n) == UNION {[1..k -> tokens] : k \in 0..n}

\* str.index: position of the first occurrence, 0 when it raises ValueError
Index(text, tok) ==
    IF \E i \in 1..Len(text) : text[i] = tok
    THEN CHOOSE i \in 1..Len(text) :
            /\ text[i] = tok
            /\ \A j \in 1..(i - 1) : text[j] # tok
    ELSE 0

\* text[a:b] on 1-based positions a..b, empty when a > b
Slice(text, a, b) == IF a > b THEN << >> ELSE SubSeq(text, a, b)

RECURSIVE LStrip(_)
LStrip(text) ==
    IF text # << >> /\ Head(text) \in Whitespace THEN LStrip(Tail(text)) ELSE text

RECURSIVE RStrip(_)
RStrip(text) ==
    IF text # << >> /\ text[Len(text)] \in Whitespace
    THEN RStrip(SubSeq(text, 1, Len(text) - 1))
    ELSE text

\* str.strip
Strip(text) == RStrip(LStrip(text))

\* str.startswith
StartsWith(text, prefix) ==
    /\ Len(text) >= Len(prefix)
    /\ SubSeq(text, 1, Len(prefix)) = prefix

-----------------------------------------------------------------------------
(* CLIAssistant.extract_command *)

extract_command(text) ==
    IF Index(text, StartMarker) = 0 THEN None
    ELSE IF Index(text, EndMarker) = 0 THEN None
    ELSE LET start == Index(text, StartMarker) + 1
             end == Index(text, EndMarker)
         IN  Some(Strip(Slice(text, start, end - 1)))

-----------------------------------------------------------------------------
(* CLIAssistant.execute_command *)

\* What running the directive under subprocess.run(..., timeout=30) comes to:
\* kind "completed" (the shell ended, with its stdout, stderr and exit status),
\* "TimeoutExpired", "Exception" (any other Exception: the launch failed, the
\* output could not be decoded), or "KeyboardInterrupt" (a BaseException).
Outcome(kind, stdout, stderr, rc, msg) ==
    [kind |-> kind, stdout |-> stdout, stderr |-> stderr, rc |-> rc, msg |-> msg]

Completed(stdout, stderr, rc) == Outcome("completed", stdout, stderr, rc, << >>)
TimeoutExpired == Outcome("TimeoutExpired", << >>, << >>, 0, << >>)
Failure(msg) == Outcome("Exception", << >>, << >>, 0, msg)
KeyboardInterrupt == Outcome("KeyboardInterrupt", << >>, << >>, 0, << >>)

\* A call's result: the text returned, or the exception that leaves the call;
\* launched tells whether subprocess.run was reached.
Return(text, launched) == [raised |-> "", text |-> text, launched |-> launched]
Raise(kind, launched) == [raised |-> kind, text |-> << >>, launched |-> launched]

NoValidCommand == <<"Kein gueltiger Befehl gefunden.">>
NoOutput == <<"Befehl ausgefuehrt (keine Ausgabe)">>
TimedOut == <<"Befehl wurde wegen Zeitueberschreitung (30s) abgebrochen">>
FailedWith(rc) == <<"Befehl fehlgeschlagen mit Exit-Code ", ToString(rc)>>
ExecError(msg) == <<"Fehler bei der Befehlsausfuehrung: ">> \o msg

\* execute_command looking at the exit status before the output
execute_command_status_first(cmd, outcome) ==
    IF cmd = << >> THEN Return(NoValidCommand, FALSE)
    ELSE IF outcome.kind = "completed" THEN
        LET out == outcome.stdout \o outcome.stderr
        IN  IF outcome.rc # 0 THEN Return(FailedWith(outcome.rc), TRUE)
            ELSE IF out # << >> THEN Return(out, TRUE)
            ELSE Return(NoOutput, TRUE)
    ELSE IF outcome.kind = "TimeoutExpired" THEN Return(TimedOut, TRUE)
    ELSE IF outcome.kind = "Exception" THEN Return(ExecError(outcome.msg), TRUE)
    ELSE Raise(outcome.kind, TRUE)

\* execute_command without its last handler, "except Exception"
execute_command_uncaught(cmd, outcome) ==
    IF cmd = << >> THEN Return(NoValidCommand, FALSE)
    ELSE IF outcome.kind = "completed" THEN
        LET out == outcome.stdout \o outcome.stderr
        IN  IF out = << >> /\ outcome.rc # 0 THEN Return(FailedWith(outcome.rc), TRUE)
            ELSE IF out # << >> THEN Return(out, TRUE)
            ELSE Return(NoOutput, TRUE)
    ELSE IF outcome.kind = "TimeoutExpired" THEN Return(TimedOut, TRUE)
    ELSE Raise(outcome.kind, TRUE)

execute_command(cmd, outcome) ==
    IF cmd = << >> THEN Return(NoValidCommand, FALSE)
    ELSE IF outcome.kind = "completed" THEN
        LET out == outcome.stdout \o outcome.stderr
        IN  IF out = << >> /\ outcome.rc # 0 THEN Return(FailedWith(outcome.rc), TRUE)
            ELSE IF out # << >> THEN Return(out, TRUE)
            ELSE Return(NoOutput, TRUE)
    ELSE IF outcome.kind = "TimeoutExpired" THEN Return(TimedOut, TRUE)
    ELSE IF outcome.kind = "Exception" THEN Return(ExecError(outcome.msg), TRUE)
    ELSE Raise(outcome.kind, TRUE)

\* The processes of a directive: subprocess.run starts the shell "sh"; the
\* shell may start a "child" for the command.  When the shell ends by itself
\* the command is over.  On a timeout, and on any exception inside
\* subprocess.run, Popen.kill() is sent to the shell alone and the shell is
\* waited for: a process the shell started is not signalled.
ProcsAfter(running, outcome) ==
    IF outcome.kind = "completed" THEN {}
    ELSE running \ {"sh"}

-----------------------------------------------------------------------------
(* Values and JSON documents (json.dump, json.load) *)

\* A Python value that JSON can hold, and a JSON document, are trees of nodes
\* of one shape: t is the type ("str", "num", "null", "list", "obj", and
\* "pair" for a key with its value inside an "obj"), s the text of a string,
\* number or key, kids the items of a list, the pairs of an object, the value
\* of a pair.  In a value s is the string itself; in a document it is the
\* string as written between the quotes, escapes included.
Node(t, s, kids) == [t |-> t, s |-> s, kids |-> kids]
Str(text) == Node("str", text, << >>)
Num(text) == Node("num", text, << >>)
Pair(key, value) == Node("pair", key, <<value>>)
Obj(pairs) == Node("obj", << >>, pairs)
List(items) == Node("list", << >>, items)

\* The content of a file: not there, not a JSON text, or a JSON document.
NoFile == Node("nofile", << >>, << >>)
Garbage == Node("garbage", << >>, << >>)

Backslash == "\\"
Quote == "\""
Newline == "\n"

\* an encoder that escapes the quote and the line break, not the backslash
RECURSIVE JsonEscapeNoBackslash(_)
JsonEscapeNoBackslash(text) ==
    IF text = << >> THEN << >>
    ELSE LET c == Head(text)
             e == IF c = Quote THEN <<Backslash, Quote>>
                  ELSE IF c = Newline THEN <<Backslash, "n">>
                  ELSE <<c>>
         IN  e \o JsonEscapeNoBackslash(Tail(text))

\* json.dump(..., ensure_ascii=False) writes a string: quote, backslash and
\* control characters are escaped, every other character is written as it is.
RECURSIVE JsonEscape(_)
JsonEscape(text) ==
    IF text = << >> THEN << >>
    ELSE LET c == Head(text)
             e == IF c = Quote THEN <<Backslash, Quote>>
                  ELSE IF c = Backslash THEN <<Backslash, Backslash>>
                  ELSE IF c = Newline THEN <<Backslash, "n">>
                  ELSE <<c>>
         IN  e \o JsonEscape(Tail(text))

\* json.load reads a string: None when the text between the quotes is not valid
\* (a bare quote or control character, an unknown or cut-off escape).
RECURSIVE JsonUnescape(_)
JsonUnescape(enc) ==
    IF enc = << >> THEN Some(<< >>)
    ELSE IF Head(enc) \in {Quote, Newline} THEN None
    ELSE IF Head(enc) = Backslash THEN
        IF Len(enc) < 2 \/ enc[2] \notin {Quote, Backslash, "n"} THEN None
        ELSE LET c == IF enc[2] = "n" THEN Newline ELSE enc[2]
                 rest == JsonUnescape(SubSeq(enc, 3, Len(enc)))
             IN  IF rest = None THEN None ELSE Some(<<c>> \o rest[1])
    ELSE LET rest == JsonUnescape(Tail(enc))
         IN  IF rest = None THEN None ELSE Some(<<Head(enc)>> \o rest[1])

\* the document json.dump writes for a value
RECURSIVE JsonDump(_)
JsonDump(value) ==
    IF value.t \in {"str", "pair"}
    THEN Node(value.t, JsonEscape(value.s),
              [i \in 1..Len(value.kids) |-> JsonDump(value.kids[i])])
    ELSE Node(value.t, value.s,
              [i \in 1..Len(value.kids) |-> JsonDump(value.kids[i])])

\* dict built from the pairs of a JSON object in file order: a repeated key
\* keeps its first position and takes the last value
RECURSIVE DictFromPairs(_, _)
DictFromPairs(pairs, acc) ==
    IF pairs = << >> THEN acc
    ELSE LET p == Head(pairs)
             at == {i \in 1..Len(acc) : acc[i].s = p.s}
         IN  IF at = {}
             THEN DictFromPairs(Tail(pairs), Append(acc, p))
             ELSE DictFromPairs(Tail(pairs),
                                [i \in 1..Len(acc) |-> IF i \in at THEN p ELSE acc[i]])

\* the value json.load builds from a document, None when it raises
RECURSIVE JsonLoad(_)
JsonLoad(doc) ==
    IF doc.t \in {"nofile", "garbage"} THEN None
    ELSE LET text == IF doc.t \in {"str", "pair"} THEN JsonUnescape(doc.s)
                     ELSE Some(doc.s)
             kids == [i \in 1..Len(doc.kids) |-> JsonLoad(doc.kids[i])]
         IN  IF text = None \/ \E i \in 1..Len(kids) : kids[i] = None THEN None
             ELSE LET vals == [i \in 1..Len(kids) |-> kids[i][1]]
                  IN  Some(Node(doc.t, text[1],
                                IF doc.t = "obj" THEN DictFromPairs(vals, << >>)
                                ELSE vals))

\* value[key] for a str key: None when it raises (KeyError on a dict without
\* the key, TypeError on anything that is not a dict)
Subscript(value, key) ==
    IF value.t = "obj" /\ \E i \in 1..Len(value.kids) : value.kids[i].s = key
    THEN LET i == CHOOSE i \in 1..Len(value.kids) : value.kids[i].s = key
         IN  Some(value.kids[i].kids[1])
    ELSE None

\* the items "for msg in value" visits: the items of a list, the keys of a
\* dict, the characters of a str; None when value is not iterable (TypeError)
Iterate(value) ==
    IF value.t = "list" THEN Some(value.kids)
    ELSE IF value.t = "obj"
    THEN Some([i \in 1..Len(value.kids) |-> Str(value.kids[i].s)])
    ELSE IF value.t = "str"
    THEN Some([i \in 1..Len(value.s) |-> Str(<<value.s[i]>>)])
    ELSE None

-----------------------------------------------------------------------------
(* Messages and the conversation history *)

Message(role, content) == [role |-> role, content |-> content]
User == Str(<<"user">>)
Assistant == Str(<<"assistant">>)

\* an insert at the front of the list
add_to_history_front(hist, role, content) == <<Message(role, content)>> \o hist

add_to_history(hist, role, content) == Append(hist, Message(role, content))

-----------------------------------------------------------------------------
(* CLIAssistant.save_conversation, CLIAssistant.load_conversation *)

\* datetime.now() read as the t-th second of the session, formatted
StrfTime(t) == ToString(t)
IsoFormat(t) == ToString(t)
SaveName(t) == <<"conversation_", StrfTime(t), ".json">>

SessionData(hist, t) ==
    Obj(<< Pair(<<"timestamp">>, Str(<<IsoFormat(t)>>)),
           Pair(<<"conversation">>,
                List([i \in 1..Len(hist) |->
                        Obj(<< Pair(<<"role">>, hist[i].role),
                               Pair(<<"content">>, hist[i].content) >>)])) >>)

\* io is what the file system does: "ok"; "open_fails" (open raises, nothing
\* is written); "write_fails" (the file was opened and truncated, the dump
\* raises before the document is complete).
save_conversation(hist, files, t, io) ==
    IF io = "ok"
    THEN [ok |-> TRUE, fs |-> [files EXCEPT ![SaveName(t)] = JsonDump(SessionData(hist, t))]]
    ELSE IF io = "write_fails"
    THEN [ok |-> FALSE, fs |-> [files EXCEPT ![SaveName(t)] = Garbage]]
    ELSE [ok |-> FALSE, fs |-> files]

\* a load that appends the file's messages to the history
load_conversation_merging(hist, doc) ==
    LET data == JsonLoad(doc)
        conv == IF data = None THEN None ELSE Subscript(data[1], <<"conversation">>)
        msgs == IF conv = None THEN None ELSE Iterate(conv[1])
        n == IF msgs = None THEN 0 ELSE Len(msgs[1])
        roles == [i \in 1..n |-> Subscript(msgs[1][i], <<"role">>)]
        contents == [i \in 1..n |-> Subscript(msgs[1][i], <<"content">>)]
    IN  IF \/ msgs = None
           \/ \E i \in 1..n : roles[i] = None \/ contents[i] = None
        THEN [ok |-> FALSE, history |-> hist]
        ELSE [ok |-> TRUE,
              history |-> hist \o [i \in 1..n |-> Message(roles[i][1], contents[i][1])]]

\* doc is what open(filename) and f.read() find
load_conversation(hist, doc) ==
    LET data == JsonLoad(doc)
        conv == IF data = None THEN None ELSE Subscript(data[1], <<"conversation">>)
        msgs == IF conv = None THEN None ELSE Iterate(conv[1])
        n == IF msgs = None THEN 0 ELSE Len(msgs[1])
        roles == [i \in 1..n |-> Subscript(msgs[1][i], <<"role">>)]
        contents == [i \in 1..n |-> Subscript(msgs[1][i], <<"content">>)]
    IN  IF \/ msgs = None
           \/ \E i \in 1..n : roles[i] = None \/ contents[i] = None
        THEN [ok |-> FALSE, history |-> hist]
        ELSE [ok |-> TRUE,
              history |-> [i \in 1..n |-> Message(roles[i][1], contents[i][1])]]

-----------------------------------------------------------------------------
(* CLIAssistant.get_response *)

\* the request built from the history as it was before the turn
RequestMessagesBefore(hist, line) ==
    [i \in 1..(Len(hist) - 1) |-> [role |-> hist[i].role, content |-> hist[i].content]]

\* the messages argument built for client.messages.create
RequestMessages(hist, line) ==
    Append([i \in 1..Len(hist) |-> [role |-> hist[i].role, content |-> hist[i].content]],
           [role |-> User, content |-> Str(line)])

\* get_response returning str(e) alone
get_response_bare(reply) == reply.text

\* reply is what the collaborator does: ok with the generated text, or an
\* Exception whose str() is text
get_response(reply) ==
    IF reply.ok THEN reply.text ELSE <<"Fehler bei der API-Anfrage: ">> \o reply.text

-----------------------------------------------------------------------------
(* The environment of a session: files, input lines, replies, outcomes *)

Entry(role, content) == Obj(<<Pair(<<"role">>, role), Pair(<<"content">>, content)>>)
Session(conversation) == Obj(<<Pair(<<"conversation">>, conversation)>>)

\* files the user put into the working directory before the session
UserFiles ==
    { [name |-> <<"session.json">>,
       doc |-> JsonDump(Session(List(<< Entry(User, Str(<<StartMarker, "rm", EndMarker>>)),
                                        Entry(Str(<<"system">>), Num(<<"5">>)) >>)))],
      [name |-> <<"garbage.json">>, doc |-> Garbage],
      [name |-> <<"nokey.json">>,
       doc |-> JsonDump(Obj(<<Pair(<<"timestamp">>, Str(<<"t">>))>>))],
      [name |-> <<"convobj.json">>, doc |-> JsonDump(Session(Obj(<< >>)))],
      [name |-> <<"norole.json">>,
       doc |-> JsonDump(Session(List(<< Entry(User, Str(<<"a">>)),
                                        Obj(<<Pair(<<"content">>, Str(<<"b">>))>>) >>)))] }

\* the names save_conversation can write; fs holds these files, the user's
\* own files are never written and stay as UserFiles gives them
SaveNames == {SaveName(t) : t \in 1..MaxClock}

ReadFile(files, filename) ==
    IF filename \in DOMAIN files THEN files[filename]
    ELSE IF \E u \in UserFiles : u.name = filename
    THEN (CHOOSE u \in UserFiles : u.name = filename).doc
    ELSE NoFile

\* lines that start a conversational turn
TurnLines ==
    { <<"say", " ", Quote, Backslash, "n", Quote, " ", StartMarker, "id", EndMarker>> }

\* lines Prompt.ask can return
InputLines ==
    { << >>, <<" ">>, <<"exit">>, <<"save">>, <<"history">>,
      <<"load", " ", "missing.json">> }
    \cup {<<"load", " ">> \o f \o <<" ">> : f \in SaveNames}
    \cup {<<"load", " ">> \o u.name : u \in UserFiles}
    \cup TurnLines

\* what the model collaborator can do with a request
PlainReplies ==
    { [ok |-> TRUE, text |-> <<"ok">>],
      [ok |-> FALSE, text |-> <<"overloaded">>] }

Replies ==
    PlainReplies
    \cup { [ok |-> TRUE, text |-> <<"I'll", " ", StartMarker, " ", "ls", EndMarker>>],
           [ok |-> TRUE, text |-> <<StartMarker, " ", EndMarker>>] }

\* how a launched directive can end
Outcomes ==
    { Completed(<<"out">>, << >>, 0), Completed(<< >>, << >>, 1), TimeoutExpired }

\* how a launch can fail
LaunchFailures == { Failure(<<"ENOMEM">>) }

-----------------------------------------------------------------------------
(* CLIAssistant.run *)

Step(name) == [step |-> name]

Init ==
    /\ pc = "AwaitingInput"
    /\ user_input = << >>
    /\ history = << >>
    /\ sent = << >>
    /\ response = << >>
    /\ answer = None
    /\ command = None
    /\ output = None
    /\ ran = None
    /\ procs = {}
    /\ fs = [f \in SaveNames |-> NoFile]
    /\ saved = [f \in SaveNames |-> None]
    /\ last = Step("start")
    /\ base = 0
    /\ ncalls = 0
    /\ nexec = 0
    /\ nlaunch = 0

\* Prompt.ask returns line.  The locals of the loop body that describe a
\* turn (and the counters kept per turn) are dead once the loop is at
\* Prompt.ask again: the model clears them in every step taken there.
Read(line) ==
    /\ pc = "AwaitingInput"
    /\ user_input' = line

NoTurn ==
    /\ sent' = << >>
    /\ response' = << >>
    /\ answer' = None
    /\ command' = None
    /\ output' = None
    /\ ran' = None
    /\ base' = 0
    /\ nexec' = 0
    /\ nlaunch' = 0

EmptyInput(line) ==
    /\ Read(line)
    /\ Strip(line) = << >>
    /\ NoTurn
    /\ last' = Step("empty")
    /\ UNCHANGED <<pc, history, procs, fs, saved, ncalls>>

Exit(line) ==
    /\ Read(line)
    /\ Strip(line) # << >>
    /\ line = <<"exit">>
    /\ NoTurn
    /\ pc' = "Exited"
    /\ last' = Step("exit")
    /\ UNCHANGED <<history, procs, fs, saved, ncalls>>

Save(line, t, io) ==
    /\ Read(line)
    /\ Strip(line) # << >>
    /\ line # <<"exit">>
    /\ line = <<"save">>
    /\ NoTurn
    /\ LET r == save_conversation(history, fs, t, io)
       IN  /\ fs' = r.fs
           /\ saved' = IF r.ok THEN [saved EXCEPT ![SaveName(t)] = Some(history)]
                       ELSE IF r.fs # fs THEN [saved EXCEPT ![SaveName(t)] = None]
                       ELSE saved
           /\ last' = Step(IF r.ok THEN "save_ok" ELSE "save_error")
    /\ UNCHANGED <<pc, history, procs, ncalls>>

ShowHistory(line) ==
    /\ Read(line)
    /\ Strip(line) # << >>
    /\ line \notin {<<"exit">>, <<"save">>}
    /\ line = <<"history">>
    /\ NoTurn
    /\ last' = Step("history")
    /\ UNCHANGED <<pc, history, procs, fs, saved, ncalls>>

\* the test written as user_input == "load"
IsLoadExact(line) == line = <<"load">>

\* line 187: user_input.startswith("load ")
IsLoad(line) == StartsWith(line, <<"load", " ">>)

IsBuiltin(line) ==
    \/ line \in {<<"exit">>, <<"save">>, <<"history">>}
    \/ IsLoad(line)

Load(line) ==
    /\ Read(line)
    /\ Strip(line) # << >>
    /\ line \notin {<<"exit">>, <<"save">>, <<"history">>}
    /\ IsLoad(line)
    /\ NoTurn
    /\ LET r == load_conversation(history,
                                   ReadFile(fs, Strip(SubSeq(line, 3, Len(line)))))
       IN  /\ history' = r.history
           /\ last' = Step(IF r.ok THEN "load_ok" ELSE "load_error")
    /\ UNCHANGED <<pc, procs, fs, saved, ncalls>>

\* lines 192-157: the user message is appended and the request is sent
StartTurn(line) ==
    /\ Read(line)
    /\ Strip(line) # << >>
    /\ ~IsBuiltin(line)
    /\ base' = Len(history)
    /\ history' = add_to_history(history, User, Str(line))
    /\ sent' = RequestMessages(history', line)
    /\ ncalls' = ncalls + 1
    /\ response' = << >>
    /\ answer' = None
    /\ command' = None
    /\ output' = None
    /\ ran' = None
    /\ nexec' = 0
    /\ nlaunch' = 0
    /\ pc' = "AwaitingReply"
    /\ last' = Step("request")
    /\ UNCHANGED <<procs, fs, saved>>

\* "if command := ...": the directive is neither None nor ""
Truthy(cmd) == cmd # None /\ cmd[1] # << >>

Synthesized(cmd, out) == <<"Befehl ausgefuehrt: ">> \o cmd \o <<"\nAusgabe: ">> \o out

\* lines 202-210 once execute_command has ended with result r
EndTurn(hist, cmd, r) ==
    /\ IF r.raised = ""
       THEN /\ pc' = "AwaitingInput"
            /\ output' = Some(r.text)
            /\ history' = add_to_history(hist, User, Str(Synthesized(cmd, r.text)))
            /\ last' = Step("executed")
       ELSE /\ pc' = "Reporting"
            /\ output' = None
            /\ history' = hist
            /\ last' = Step(IF r.raised = "KeyboardInterrupt" THEN "interrupt" ELSE "error")

\* lines 159-200: the reply holds no directive to run
ReplyWithoutCommand(reply) ==
    /\ pc = "AwaitingReply"
    /\ answer' = Some(reply)
    /\ response' = get_response(reply)
    /\ command' = extract_command(response')
    /\ ~Truthy(command')
    /\ history' = add_to_history(history, Assistant, Str(response'))
    /\ pc' = "AwaitingInput"
    /\ last' = Step("replied")
    /\ UNCHANGED <<user_input, sent, output, ran, procs, fs, saved, base, ncalls,
                   nexec, nlaunch>>

\* a loop that looks for the directive in the input line
ReplyAndLaunchFromInput(reply) ==
    /\ pc = "AwaitingReply"
    /\ answer' = Some(reply)
    /\ response' = get_response(reply)
    /\ command' = extract_command(user_input)
    /\ Truthy(command')
    /\ history' = add_to_history(history, Assistant, Str(response'))
    /\ nexec' = nexec + 1
    /\ nlaunch' = nlaunch + 1
    /\ procs' = procs \cup {"sh"}
    /\ pc' = "Executing"
    /\ last' = Step("launched")
    /\ UNCHANGED <<user_input, sent, output, ran, fs, saved, base, ncalls>>

\* lines 159-86: the reply holds a directive and its shell is started
ReplyAndLaunch(reply) ==
    /\ pc = "AwaitingReply"
    /\ answer' = Some(reply)
    /\ response' = get_response(reply)
    /\ command' = extract_command(response')
    /\ Truthy(command')
    /\ history' = add_to_history(history, Assistant, Str(response'))
    /\ nexec' = nexec + 1
    /\ nlaunch' = nlaunch + 1
    /\ procs' = procs \cup {"sh"}
    /\ pc' = "Executing"
    /\ last' = Step("launched")
    /\ UNCHANGED <<user_input, sent, output, ran, fs, saved, base, ncalls>>

\* lines 159-204: the reply holds a directive and its shell cannot be started
ReplyAndLaunchFails(reply, failure) ==
    /\ pc = "AwaitingReply"
    /\ answer' = Some(reply)
    /\ response' = get_response(reply)
    /\ command' = extract_command(response')
    /\ Truthy(command')
    /\ nexec' = nexec + 1
    /\ nlaunch' = nlaunch + 1
    /\ ran' = Some(failure)
    /\ EndTurn(add_to_history(history, Assistant, Str(response')), command'[1],
               execute_command(command'[1], failure))
    /\ UNCHANGED <<user_input, sent, procs, fs, saved, base, ncalls>>

\* the shell starts a process for the command
CommandForks ==
    /\ pc = "Executing"
    /\ "child" \notin procs
    /\ procs' = procs \cup {"child"}
    /\ UNCHANGED <<pc, user_input, history, sent, response, answer, command, output,
                   ran, fs, saved, last, base, ncalls, nexec, nlaunch>>

\* lines 86-204: subprocess.run ends with outcome
CommandEnds(outcome) ==
    /\ pc = "Executing"
    /\ procs' = ProcsAfter(procs, outcome)
    /\ ran' = Some(outcome)
    /\ EndTurn(history, command[1], execute_command(command[1], outcome))
    /\ UNCHANGED <<user_input, sent, response, answer, command, fs, saved, base, ncalls,
                   nexec, nlaunch>>

\* Ctrl-C while subprocess.run waits
InterruptCommand ==
    /\ pc = "Executing"
    /\ procs' = ProcsAfter(procs, KeyboardInterrupt)
    /\ ran' = Some(KeyboardInterrupt)
    /\ EndTurn(history, command[1], execute_command(command[1], KeyboardInterrupt))
    /\ UNCHANGED <<user_input, sent, response, answer, command, fs, saved, base, ncalls,
                   nexec, nlaunch>>

\* Ctrl-C while client.messages.create waits: not an Exception, so line 160
\* lets it pass and line 206 catches it
InterruptRequest ==
    /\ pc = "AwaitingReply"
    /\ pc' = "Reporting"
    /\ last' = Step("interrupt")
    /\ UNCHANGED <<user_input, history, sent, response, answer, command, output, ran,
                   procs, fs, saved, base, ncalls, nexec, nlaunch>>

\* Ctrl-C while Prompt.ask waits
InterruptPrompt ==
    /\ pc = "AwaitingInput"
    /\ NoTurn
    /\ pc' = "Reporting"
    /\ last' = Step("interrupt")
    /\ UNCHANGED <<user_input, history, procs, fs, saved, ncalls>>

\* Prompt.ask raises EOFError (the input stream has ended): an Exception, so
\* line 208 catches it
PromptFails ==
    /\ pc = "AwaitingInput"
    /\ NoTurn
    /\ pc' = "Reporting"
    /\ last' = Step("prompt_error")
    /\ UNCHANGED <<user_input, history, procs, fs, saved, ncalls>>

\* the handler of line 206 or of line 208 has printed its message: the try
\* statement is left and the loop goes round
ReportEnds ==
    /\ pc = "Reporting"
    /\ pc' = "AwaitingInput"
    /\ UNCHANGED <<user_input, history, sent, response, answer, command, output, ran,
                   procs, fs, saved, last, base, ncalls, nexec, nlaunch>>

\* Ctrl-C while a handler of lines 206-210 prints: the KeyboardInterrupt is
\* raised inside an except clause, no clause of the same try statement
\* catches it, and it leaves the while loop and run()
InterruptReport ==
    /\ pc = "Reporting"
    /\ pc' = "Exited"
    /\ last' = Step("uncaught")
    /\ UNCHANGED <<user_input, history, sent, response, answer, command, output, ran,
                   procs, fs, saved, base, ncalls, nexec, nlaunch>>

\* a process that outlived its shell ends by itself
OrphanExits ==
    /\ "child" \in procs
    /\ "sh" \notin procs
    /\ procs' = procs \ {"child"}
    /\ UNCHANGED <<pc, user_input, history, sent, response, answer, command, output,
                   ran, fs, saved, last, base, ncalls, nexec, nlaunch>>

\* A session in which no save succeeds (the directory cannot be written):
\* every kind of reply, outcome and interruption.
Next ==
    \/ \E line \in InputLines : EmptyInput(line)
    \/ \E line \in InputLines : Exit(line)
    \/ \E line \in InputLines, t \in 1..MaxClock : Save(line, t, "open_fails")
    \/ \E line \in InputLines : ShowHistory(line)
    \/ \E line \in InputLines : Load(line)
    \/ \E line \in InputLines : ncalls < MaxTurns /\ StartTurn(line)
    \/ \E reply \in Replies : ReplyWithoutCommand(reply)
    \/ \E reply \in Replies : ReplyAndLaunch(reply)
    \/ \E reply \in Replies, failure \in LaunchFailures : ReplyAndLaunchFails(reply, failure)
    \/ CommandForks
    \/ \E outcome \in Outcomes : CommandEnds(outcome)
    \/ InterruptCommand
    \/ InterruptRequest
    \/ InterruptPrompt
    \/ PromptFails
    \/ ReportEnds
    \/ InterruptReport
    \/ OrphanExits

Spec == Init /\ [][Next]_vars

\* A session in which saves succeed or fail and the collaborator's replies
\* hold no directive.
NextPersist ==
    \/ \E line \in InputLines : EmptyInput(line)
    \/ \E line \in InputLines : Exit(line)
    \/ \E line \in InputLines, t \in 1..MaxClock, io \in {"ok", "open_fails", "write_fails"} :
            Save(line, t, io)
    \/ \E line \in InputLines : ShowHistory(line)
    \/ \E line \in InputLines : Load(line)
    \/ \E line \in InputLines : ncalls < MaxPersistTurns /\ StartTurn(line)
    \/ \E reply \in PlainReplies : ReplyWithoutCommand(reply)
    \/ InterruptRequest
    \/ InterruptPrompt
    \/ ReportEnds

SpecPersist == Init /\ [][NextPersist]_vars

-----------------------------------------------------------------------------
(* extract_command on its own: every text up to MaxLen tokens *)

ExtractTokens == {StartMarker, EndMarker, " ", "ls", "-l"}

Idle ==
    /\ user_input = << >>
    /\ answer = None
    /\ history = << >>
    /\ sent = << >>
    /\ output = None
    /\ ran = None
    /\ procs = {}
    /\ fs = [f \in SaveNames |-> NoFile]
    /\ saved = [f \in SaveNames |-> None]
    /\ last = Step("start")
    /\ base = 0
    /\ ncalls = 0
    /\ nexec = 0
    /\ nlaunch = 0

InitExtract ==
    /\ pc = "extract"
    /\ response \in TextsUpTo(ExtractTokens, MaxLen)
    /\ command = None
    /\ Idle

ExtractCall ==
    /\ pc = "extract"
    /\ command' = extract_command(response)
    /\ pc' = "extracted"
    /\ UNCHANGED <<user_input, history, sent, response, answer, output, ran, procs, fs,
                   saved, last, base, ncalls, nexec, nlaunch>>

NextExtract == ExtractCall

SpecExtract == InitExtract /\ [][NextExtract]_vars

-----------------------------------------------------------------------------
(* execute_command on its own: every directive up to MaxCmdLen tokens *)

CommandTokens == {"ls", " ", "sleep"}

ExecOutcomes ==
    { Completed(so, se, rc) : so \in {<< >>, <<"out", "\n">>},
                              se \in {<< >>, <<"err">>},
                              rc \in {0, 1, 2} }
    \cup { TimeoutExpired, Failure(<<"codec">>), KeyboardInterrupt }

InitExec ==
    /\ pc = "execute"
    /\ command \in {Some(c) : c \in TextsUpTo(CommandTokens, MaxCmdLen)}
    /\ response = << >>
    /\ Idle

\* one call: forked tells whether the shell started a process for the command
ExecCall(outcome, forked) ==
    /\ pc = "execute"
    /\ LET r == execute_command(command[1], outcome)
           running == IF ~r.launched \/ outcome \in LaunchFailures THEN {}
                      ELSE IF forked THEN {"sh", "child"} ELSE {"sh"}
       IN  /\ output' = IF r.raised = "" THEN Some(r.text) ELSE None
           /\ ran' = IF r.launched THEN Some(outcome) ELSE None
           /\ nlaunch' = IF r.launched THEN 1 ELSE 0
           /\ procs' = ProcsAfter(running, outcome)
           /\ last' = Step(IF r.raised = "" THEN "returned" ELSE "raised")
    /\ nexec' = 1
    /\ pc' = "executed"
    /\ UNCHANGED <<user_input, history, sent, response, answer, command, fs, saved,
                   base, ncalls>>

NextExec ==
    \E outcome \in ExecOutcomes \cup LaunchFailures, forked \in BOOLEAN :
        ExecCall(outcome, forked)

SpecExec == InitExec /\ [][NextExec]_vars

-----------------------------------------------------------------------------
(* Claims about extract_command (SpecExtract) *)

Positions(text, tok) == {i \in 1..Len(text) : text[i] = tok}
Least(S) == CHOOSE i \in S : \A j \in S : i <= j
Greatest(S) == CHOOSE i \in S : \A j \in S : j <= i

\* text without its leading and trailing whitespace
Trimmed(text) ==
    LET solid == {i \in 1..Len(text) : text[i] \notin Whitespace}
    IN  IF solid = {} THEN << >> ELSE SubSeq(text, Least(solid), Greatest(solid))

\* a start marker with an end marker somewhere after it
HasPairAfter(text) ==
    \E i \in Positions(text, StartMarker) :
        \E j \in Positions(text, EndMarker) : i < j

\* the text strictly between the first start marker and the first end marker
\* after it, trimmed
FirstDirective(text) ==
    LET i == Least(Positions(text, StartMarker))
        j == Least({k \in Positions(text, EndMarker) : k > i})
    IN  Trimmed(Slice(text, i + 1, j - 1))

\* C1: for every text with a start marker followed later by an end marker,
\* extract_command returns the trimmed text between the first start marker and
\* the first end marker after it.
C1_FirstPairExtracted ==
    (pc = "extracted" /\ HasPairAfter(response))
        => command = Some(FirstDirective(response))

\* C2: for every text without a start marker, or without an end marker, or
\* whose end markers all come before the first start marker, extract_command
\* returns None.
C2_AbsenceIsNone ==
    (/\ pc = "extracted"
     /\ \/ Positions(response, StartMarker) = {}
        \/ Positions(response, EndMarker) = {}
        \/ \A j \in Positions(response, EndMarker) :
                j < Least(Positions(response, StartMarker)))
        => command = None

-----------------------------------------------------------------------------
(* Claims about a conversational turn (Spec) *)

\* the turn is over and was not cut short by Ctrl-C
TurnEnded == pc = "AwaitingInput" /\ last.step \in {"replied", "executed", "error"}

\* the history as it was when the turn started, read off the request
Before == SubSeq(sent, 1, base)

\* C3: the message list passed to the model collaborator is exactly the
\* history at the moment of the request: no message duplicated or omitted.
C3_RequestIsSnapshot ==
    pc = "AwaitingReply" => sent = history

\* C4: a turn from history H with input u and reply r ends with
\* H + [user u, assistant r] when extract_command returned None, and with
\* H + [user u, assistant r, user s] whenever it returned a directive (an empty
\* one included), s recording the directive and the executor's result; the
\* executor is called exactly once in the second case, not at all in the first.
C4_TurnHistory ==
    TurnEnded =>
        LET turn == <<Message(User, Str(user_input)), Message(Assistant, Str(response))>>
        IN  IF command = None
            THEN history = Before \o turn /\ nexec = 0
            ELSE /\ nexec = 1
                 /\ output # None
                 /\ history = Before \o turn \o
                        <<Message(User, Str(<<"Befehl ausgefuehrt: ">> \o command[1]
                                            \o <<"\nAusgabe: ">> \o output[1]))>>

\* C7: whatever the outcome of running a directive (completion, timeout,
\* failure to launch or to decode), execute_command returns a text, no fault
\* leaves the executor, and the turn appends its synthesized message and
\* returns to AwaitingInput.
C7_ExecutorAlwaysReturnsText ==
    (/\ pc # "Executing"
     /\ last.step # "interrupt"
     /\ ran # None
     /\ ran[1].kind \in {"completed", "TimeoutExpired", "Exception"})
        => /\ pc = "AwaitingInput"
           /\ last.step = "executed"
           /\ output # None
           /\ (ran[1].kind = "Exception" =>
                    output[1] = <<"Fehler bei der Befehlsausfuehrung: ">> \o ran[1].msg)
           /\ Len(history) = base + 3
           /\ history[base + 3] =
                Message(User, Str(<<"Befehl ausgefuehrt: ">> \o command[1]
                                  \o <<"\nAusgabe: ">> \o output[1]))

\* a launch failed, and the turn ended with its synthesized message
C7_Witness ==
    /\ pc = "AwaitingInput"
    /\ last.step = "executed"
    /\ ran = Some(Failure(<<"ENOMEM">>))
    /\ output = Some(<<"Fehler bei der Befehlsausfuehrung: ", "ENOMEM">>)
    /\ Len(history) = base + 3

-----------------------------------------------------------------------------
(* Claims about execute_command (SpecExec) *)

\* C5: a non-empty directive that completes with output X and exit status c
\* yields X when X is not empty, the exit-status text when X is empty and c is
\* not 0, the no-output marker when X is empty and c is 0; an empty directive
\* yields the no-valid-directive text and launches nothing.
C5_ExecutorResult ==
    pc = "executed" =>
        IF command[1] = << >>
        THEN /\ output = Some(<<"Kein gueltiger Befehl gefunden.">>)
             /\ nlaunch = 0
             /\ procs = {}
        ELSE (ran # None /\ ran[1].kind = "completed") =>
                LET X == ran[1].stdout \o ran[1].stderr
                    c == ran[1].rc
                IN  /\ X # << >> => output = Some(X)
                    /\ (X = << >> /\ c # 0) =>
                            output = Some(<<"Befehl fehlgeschlagen mit Exit-Code ",
                                            ToString(c)>>)
                    /\ (X = << >> /\ c = 0) =>
                            output = Some(<<"Befehl ausgefuehrt (keine Ausgabe)">>)

\* output on stderr only, with a non-zero exit status, is returned verbatim
C5_Witness ==
    /\ pc = "executed"
    /\ command = Some(<<"ls", " ">>)
    /\ ran = Some(Completed(<< >>, <<"err">>, 2))
    /\ output = Some(<<"err">>)

\* C6: when the command runs past the 30 seconds, execute_command returns the
\* timeout text and no process started for the directive is left running.
C6_TimeoutLeavesNoProcess ==
    (pc = "executed" /\ ran = Some(TimeoutExpired))
        => /\ output = Some(<<"Befehl wurde wegen Zeitueberschreitung (30s) abgebrochen">>)
           /\ procs = {}

-----------------------------------------------------------------------------
(* Claims about the built-in keywords and the session files *)

\* the step reads a line from the prompt
ReadStep ==
    /\ pc = "AwaitingInput"
    /\ pc' # "Reporting"
    /\ procs' = procs

LoadLine(line) == StartsWith(line, <<"load", " ">>)

\* the file name a load line gives
LoadName(line) == Trimmed(SubSeq(line, 3, Len(line)))

BuiltinLine(line) ==
    \/ Trimmed(line) = << >>
    \/ line \in {<<"exit">>, <<"save">>, <<"history">>}
    \/ LoadLine(line)

HasKey(obj, key) == \E p \in 1..Len(obj.kids) : obj.kids[p].s = key

\* a session document: an object whose "conversation" is a list of objects
\* that each have "role" and "content"
WellFormed(doc) ==
    /\ doc.t = "obj"
    /\ HasKey(doc, <<"conversation">>)
    /\ \A p \in 1..Len(doc.kids) :
          doc.kids[p].s = <<"conversation">> =>
            LET conv == doc.kids[p].kids[1]
            IN  /\ conv.t = "list"
                /\ \A i \in 1..Len(conv.kids) :
                      /\ conv.kids[i].t = "obj"
                      /\ HasKey(conv.kids[i], <<"role">>)
                      /\ HasKey(conv.kids[i], <<"content">>)

\* C8: a successful save followed by a load of the file it wrote leaves the
\* history equal to the history saved, whatever it was before the load.
C8_SaveLoadRoundTrip ==
    (/\ pc = "AwaitingInput"
     /\ last.step \in {"load_ok", "load_error"}
     /\ LoadName(user_input) \in SaveNames
     /\ saved[LoadName(user_input)] # None)
        => /\ last.step = "load_ok"
           /\ history = saved[LoadName(user_input)][1]

\* a saved history whose text holds a quote and a backslash has been loaded back
C8_Witness ==
    /\ pc = "AwaitingInput"
    /\ last.step = "load_ok"
    /\ LoadName(user_input) \in SaveNames
    /\ saved[LoadName(user_input)] = Some(history)
    /\ Len(history) >= 2
    /\ \E i \in 1..Len(history) : \E k \in 1..Len(history[i].content.s) :
            /\ k < Len(history[i].content.s)
            /\ history[i].content.s[k] = Backslash
            /\ history[i].content.s[k + 1] = "n"

\* C9: loading a file that does not exist or is malformed leaves the history
\* as it was and reports an error; the loop returns to AwaitingInput.
C9_FailedLoadKeepsHistory ==
    [][(/\ ReadStep
        /\ LoadLine(user_input')
        /\ ~WellFormed(ReadFile(fs, LoadName(user_input'))))
            => /\ history' = history
               /\ last'.step = "load_error"
               /\ pc' = "AwaitingInput"]_vars

\* C10: an empty line and the keywords exit, save, history and load never call
\* the model or the executor and never append a message; all but load leave the
\* history unchanged, and a successful save writes a file holding the history.
C10_BuiltinsFrame ==
    [][(ReadStep /\ BuiltinLine(user_input'))
            => /\ ncalls' = ncalls
               /\ sent' = << >>
               /\ nexec' = 0
               /\ nlaunch' = 0
               /\ pc' \in {"AwaitingInput", "Exited"}
               /\ history' # Append(history, Message(User, Str(user_input')))
               /\ ~LoadLine(user_input') => history' = history
               /\ user_input' # <<"save">> => fs' = fs
               /\ last'.step = "save_ok" =>
                    \E f \in SaveNames :
                        /\ saved'[f] = Some(history)
                        /\ load_conversation(<< >>, fs'[f]) =
                                [ok |-> TRUE, history |-> history]]_vars

\* a save of a history of two messages has succeeded
C10_Witness ==
    /\ pc = "AwaitingInput"
    /\ last.step = "save_ok"
    /\ user_input = <<"save">>
    /\ Len(history) >= 2
    /\ \E f \in SaveNames : saved[f] = Some(history)

-----------------------------------------------------------------------------
(* Claims about the life of the loop (Spec) *)

\* C11: the loop reaches Exited only by the user entering the exit keyword;
\* no interruption, collaborator failure, timeout, launch failure, persistence
\* failure or other error ends the loop.
C11_ExitOnlyByKeyword ==
    [][(pc # "Exited" /\ pc' = "Exited")
            => /\ pc = "AwaitingInput"
               /\ user_input' = <<"exit">>
               /\ last'.step = "exit"]_vars

\* C12: when the model request fails, the error text takes the place of the
\* reply, it is appended as the assistant message of the turn right after the
\* user message, and the loop is back in AwaitingInput.
C12_FailedRequestCompletesTurn ==
    (answer # None /\ ~answer[1].ok)
        => /\ pc = "AwaitingInput"
           /\ last.step = "replied"
           /\ response = <<"Fehler bei der API-Anfrage: ">> \o answer[1].text
           /\ Len(history) = base + 2
           /\ history[base + 1] = Message(User, Str(user_input))
           /\ history[base + 2] = Message(Assistant, Str(response))

\* the second request of a session has failed and its turn is over
C12_Witness ==
    /\ pc = "AwaitingInput"
    /\ answer = Some([ok |-> FALSE, text |-> <<"overloaded">>])
    /\ ncalls = 2
    /\ base >= 1
    /\ history[Len(history)] =
            Message(Assistant, Str(<<"Fehler bei der API-Anfrage: ", "overloaded">>))

-----------------------------------------------------------------------------
(* Claims about the shape of the history *)

IsPrefix(a, b) == Len(a) <= Len(b) /\ SubSeq(b, 1, Len(a)) = a

\* no step of the loop has been taken yet
AtStart == last.step = "start"

\* the step is a load that reports success
LoadSucceeds == ReadStep /\ LoadLine(user_input') /\ last'.step = "load_ok"

\* the messages a session document lists, in the document's order
FileMessages(doc) ==
    LET data == JsonLoad(doc)
        conv == IF data = None THEN None ELSE Subscript(data[1], <<"conversation">>)
        items == IF conv = None THEN None ELSE Iterate(conv[1])
        n == IF items = None THEN 0 ELSE Len(items[1])
    IN  [i \in 1..n |-> Message(Subscript(items[1][i], <<"role">>)[1],
                                Subscript(items[1][i], <<"content">>)[1])]

\* C13: the history is empty at start; every step other than a successful
\* load leaves the old history as a prefix of the new one; a successful load
\* makes the history the file's sequence of messages, nothing merged.
C13_AppendOnly ==
    [][/\ AtStart => history = << >>
       /\ IF LoadSucceeds
          THEN history' = FileMessages(ReadFile(fs, LoadName(user_input')))
          ELSE IsPrefix(history, history')]_vars

\* a file of two messages has replaced the two messages of a finished turn
C13_Witness ==
    /\ pc = "AwaitingInput"
    /\ last.step = "load_ok"
    /\ ncalls >= 1
    /\ user_input = <<"load", " ", "session.json">>
    /\ Len(history) = 2
    /\ history[1].role = User

\* C14: in every reachable state every message of the history has the role
\* user or the role assistant.
C14_RolesUserOrAssistant ==
    \A i \in 1..Len(history) : history[i].role \in {User, Assistant}

-----------------------------------------------------------------------------
(* Claims about the order of the steps of a turn (Spec) *)

\* C15: whenever the loop is back in AwaitingInput after a turn, the user
\* message of the turn is followed in the history by the assistant reply of the
\* turn and, when a directive was executed, by its synthesized message; also
\* when Ctrl-C arrives during the model request or the command execution.
C15_TurnRunsToCompletion ==
    (pc = "AwaitingInput" /\ sent # << >>)
        => /\ Len(history) >= base + 2
           /\ history[base + 1] = Message(User, Str(user_input))
           /\ history[base + 2] = Message(Assistant, Str(response))
           /\ nexec > 0 =>
                /\ Len(history) = base + 3
                /\ history[base + 3].role = User
                /\ StartsWith(history[base + 3].content.s,
                              <<"Befehl ausgefuehrt: ">> \o command[1])

\* cmd is the trimmed text between a start marker of text and an end marker
\* after it
IsDirectiveIn(cmd, text) ==
    \E i \in Positions(text, StartMarker) :
        \E j \in Positions(text, EndMarker) :
            i < j /\ cmd = Trimmed(Slice(text, i + 1, j - 1))

\* the step calls the executor or starts a shell
RunsCommand ==
    \/ nexec' > nexec
    \/ nlaunch' > nlaunch
    \/ "sh" \in procs' \ procs

\* C16: a command is run only in the step that receives the reply of the
\* current turn, it is a directive of that reply (the text appended as the
\* assistant message of the turn), and at most one command is run per turn;
\* marker text in the input line, in earlier messages or in a loaded file
\* runs nothing.
C16_CommandOnlyFromCurrentReply ==
    [][/\ nexec' <= 1
       /\ nlaunch' <= 1
       /\ RunsCommand =>
            /\ pc = "AwaitingReply"
            /\ nexec = 0
            /\ answer' # None
            /\ response' = get_response(answer'[1])
            /\ history'[base + 2] = Message(Assistant, Str(response'))
            /\ command' # None
            /\ IsDirectiveIn(command'[1], response')]_vars

\* the directive of the reply runs while the input line, the message before
\* it and the loaded file hold markers of their own
C16_Witness ==
    /\ pc = "Executing"
    /\ nexec = 1
    /\ command = Some(<<"ls">>)
    /\ Positions(user_input, StartMarker) # {}
    /\ base = 2
    /\ history[1] = Message(User, Str(<<StartMarker, "rm", EndMarker>>))
    /\ "sh" \in procs

\* a message the loop synthesized: the fixed prefix, the directive, the line
\* break with the second label (which no input line can hold), the result
IsSynthesized(m) ==
    /\ m.role = User
    /\ m.content.s # << >>
    /\ m.content.s[1] = "Befehl ausgefuehrt: "
    /\ Positions(m.content.s, "\nAusgabe: ") # {}

\* message a is the assistant message whose directive message m records
Records(m, a) ==
    /\ a.role = Assistant
    /\ extract_command(a.content.s) =
            Some(SubSeq(m.content.s, 2, Least(Positions(m.content.s, "\nAusgabe: ")) - 1))

Shaped(h) ==
    /\ h # << >> => h[1].role = User
    /\ \A i \in 1..Len(h) : h[i].role = Assistant => (i > 1 /\ h[i - 1].role = User)
    /\ \A i \in 1..Len(h) : IsSynthesized(h[i]) => (i > 1 /\ Records(h[i], h[i - 1]))

\* C17: the history starts empty, and as long as no load succeeds it is empty
\* or begins with a user message, every assistant message comes right after a
\* user message, and every synthesized message comes right after the
\* assistant message whose directive it records: every step other than a
\* successful load keeps this shape.
C17_RoleStructure ==
    [][/\ AtStart => history = << >>
       /\ (Shaped(history) /\ ~LoadSucceeds) => Shaped(history')]_vars

\* two turns without a load: the first ran a directive, the second is answered
C17_Witness ==
    /\ pc = "AwaitingInput"
    /\ Len(history) = 5
    /\ \A i \in {1, 4} : history[i] = Message(User, Str(user_input))
    /\ IsSynthesized(history[3])
    /\ history[5].role = Assistant
    /\ Shaped(history)

\* C18: the request of a turn is made once, in the step that appends the user
\* message and nothing else; its last message is a user message holding the
\* input line of the turn; no other step calls the model, and an assistant
\* message is appended only by a step that receives the reply.
C18_RequestEndsWithInput ==
    [][/\ ncalls' # ncalls => (pc = "AwaitingInput" /\ pc' = "AwaitingReply")
       /\ (pc # "AwaitingReply" /\ pc' = "AwaitingReply") =>
            /\ ncalls' = ncalls + 1
            /\ history' = Append(history, Message(User, Str(user_input')))
            /\ sent' # << >>
            /\ sent'[Len(sent')] = [role |-> User, content |-> Str(user_input')]
       /\ (/\ ~LoadSucceeds
           /\ Len(history') > Len(history)
           /\ history'[Len(history) + 1].role = Assistant) => pc = "AwaitingReply"]_vars

\* the second request of a session is in flight
C18_Witness ==
    /\ pc = "AwaitingReply"
    /\ ncalls = 2
    /\ Len(history) >= 3
    /\ Len(sent) = Len(history) + 1
    /\ sent[Len(sent)] = [role |-> User, content |-> Str(user_input)]

====
